---- MODULE Spec2Model ----
(***************************************************************************)
(* DECALNIK: font atlas + text decal generator (decalnik.py).              *)
(*                                                                         *)
(* The Generate operator (FONT_ATLAS_OT_Generate.execute) is modelled as   *)
(* a sequence of steps: execute -> generate_font_atlas -> the blocks of    *)
(* create_text_decal (material, UVs, shared material + widths, spawn,      *)
(* join, final transform).  The host data (bpy.data.images, .materials,    *)
(* the scene's objects, the atlas file) is the persistent state.           *)
(*                                                                         *)
(* Numbers.  The source computes with floats; the model computes the same  *)
(* quantities exactly, as integers in fixed units:                         *)
(*   - lengths along x and y : 1 Blender unit = Unit = 10 * font_size      *)
(*     so that  width / target_height * 0.8  =  8 * width  (exact), and    *)
(*     every half width the code takes is an integer;                      *)
(*   - u of a UV rectangle   : units of 1 / CELL_COUNT[0]                  *)
(*   - v of a UV rectangle   : units of 1 / CELL_COUNT[1]                  *)
(*   - u of a plane's UVs    : units of 1 / (2 * CELL_COUNT[0] * Unit)     *)
(* Floating-point rounding is not modelled.                                *)
(* Python indexes from 0, TLA+ from 1: cell_count[1] is cell_count[0] of   *)
(* the source, CHARACTERS[i + 1] is CHARACTERS[i].                         *)
(***************************************************************************)
EXTENDS Integers, Sequences, FiniteSets, TLC

VARIABLES
    is_saved,         \* bpy.data.is_saved and bpy.data.filepath
    dir_writable,     \* whether image.save(atlas_path) succeeds (else PermissionError)
    text_content,     \* props.text_content
    characters,       \* props.characters
    cell_count,       \* props.cell_count
    font_path,        \* props.font_path
    cursor,           \* bpy.context.scene.cursor.location, <<x, y>>
    atlas_png,        \* the atlas file: whether written, the glyphs drawn by character index
    images,           \* bpy.data.images
    materials,        \* bpy.data.materials
    objects,          \* the scene's mesh objects
    pc,               \* position inside the Generate operator
    reports,          \* self.report messages of the current or last invocation
    returns,          \* outcome of every invocation so far, in order
    img,              \* local: the atlas image data block
    text,             \* local: text after the '\n' replacement
    mat,              \* local: the material
    uv_dict,          \* local: character -> UV rectangle
    created_objects,  \* local: the planes spawned by this invocation (indices into objects)
    phases            \* the blocks the current or last invocation has completed

config == <<is_saved, dir_writable, characters, cell_count, font_path, cursor>>
host   == <<atlas_png, images, materials, objects>>
locals == <<img, text, mat, uv_dict, created_objects>>
vars   == <<is_saved, dir_writable, text_content, characters, cell_count, font_path,
            cursor, atlas_png, images, materials, objects, pc, reports, returns,
            img, text, mat, uv_dict, created_objects, phases>>

----------------------------------------------------------------------------
(* Bounds of the model *)

MaxTextLen == 3     \* longest decal text of the layout specification
MaxEditLen == 2     \* longest decal text the user types in the operator specification
MaxCells == 3       \* largest cell count per axis of the grid specification
MaxDupLen == 3      \* longest character set with repeated characters
MaxRuns == 2        \* Generate invocations per behaviour

(* Program constants *)

font_size == 95
atlas_name == "font_atlas_1"
DefaultCellCount == <<8, 8>>
DefaultCharacters ==
    <<"A", "B", "C", "D", "E", "F", "G", "H", "I", "J", "K", "L", "M", "N", "O", "P",
      "Q", "R", "S", "T", "U", "V", "W", "X", "Y", "Z", "0", "1", "2", "3", "4", "5",
      "6", "7", "8", "9", "&", "-", "+", "/", ".", ",", "!", "?", " ">>

Unit == 10 * font_size

None == "None"
EmptyDict == [c \in {} |-> 0]

----------------------------------------------------------------------------
(* Helpers *)

Range(s) == {s[i] : i \in DOMAIN s}
Last(s) == s[Len(s)]
SeqsUpTo(S, n) == UNION {[1..k -> S] : k \in 0..n}

RECURSIVE SumSeq(_)
SumSeq(s) == IF s = <<>> THEN 0 ELSE Head(s) + SumSeq(Tail(s))

RECURSIVE Flatten(_)
Flatten(ss) == IF ss = <<>> THEN <<>> ELSE Head(ss) \o Flatten(Tail(ss))

----------------------------------------------------------------------------
(* Text handling *)

\* str.upper() on the characters the model uses
Upper(c) ==
    CASE c = "a" -> "A"
      [] c = "b" -> "B"
      [] c = "n" -> "N"
      [] OTHER -> c

\* text.replace('\\n', '\n'): every backslash followed by n becomes a line break,
\* scanning left to right without overlap
RECURSIVE ReplaceEscapes(_)
ReplaceEscapes(t) ==
    IF t = <<>> THEN <<>>
    ELSE IF Len(t) >= 2 /\ t[1] = "\\" /\ t[2] = "n"
         THEN <<"\n">> \o ReplaceEscapes(SubSeq(t, 3, Len(t)))
         ELSE <<t[1]>> \o ReplaceEscapes(Tail(t))

\* text.split("\n"): always at least one (possibly empty) line
RECURSIVE SplitLines(_)
SplitLines(t) ==
    IF \A i \in DOMAIN t : t[i] # "\n" THEN <<t>>
    ELSE LET k == CHOOSE i \in DOMAIN t : t[i] = "\n" /\ \A j \in 1..(i - 1) : t[j] # "\n"
         IN  <<SubSeq(t, 1, k - 1)>> \o SplitLines(SubSeq(t, k + 1, Len(t)))

----------------------------------------------------------------------------
(* Font metrics *)

\* font.getmask(char).size[0]: the glyph's pixel width in the font at font_size.
\* The values are those of one fixed font; a space has an empty mask.
GlyphWidth(c) ==
    CASE c = "A" -> 63
      [] c = "B" -> 57
      [] c = "N" -> 66
      [] c = "I" -> 12
      [] c = " " -> 0
      [] OTHER -> 50

\* calculate_character_widths: width / target_height * 0.8, in 1/Unit
calculate_character_widths(CHARACTERS) ==
    [c \in Range(CHARACTERS) |-> 8 * GlyphWidth(c)]

\* char_widths of create_text_decal: measured when a font path is set, else 1
CharWidths(FONT_PATH, CHARACTERS) ==
    IF FONT_PATH # "" THEN calculate_character_widths(CHARACTERS)
    ELSE [c \in Range(CHARACTERS) |-> Unit]

----------------------------------------------------------------------------
(* Atlas layout: generate_font_atlas *)

\* the cell in which character index i is drawn
AtlasCell(i, CELL_COUNT) ==
    [x |-> i % CELL_COUNT[1], y |-> i \div CELL_COUNT[1]]

\* the loop over enumerate(CHARACTERS): one draw.text per index
AtlasDraws(CHARACTERS, CELL_COUNT) ==
    [k \in 1..Len(CHARACTERS) |->
        [char |-> CHARACTERS[k],
         x |-> AtlasCell(k - 1, CELL_COUNT).x,
         y |-> AtlasCell(k - 1, CELL_COUNT).y]]

\* mutant of LoadOrReload: the image is loaded without looking for an existing one
LoadAlways(imgs, blender_image_name) ==
    Append(imgs, [name |-> blender_image_name, loads |-> 1])

\* bpy.data.images.load / img.reload
LoadOrReload(imgs, blender_image_name) ==
    IF blender_image_name \notin {imgs[i].name : i \in DOMAIN imgs}
    THEN Append(imgs, [name |-> blender_image_name, loads |-> 1])
    ELSE [i \in DOMAIN imgs |->
            IF imgs[i].name = blender_image_name
            THEN [imgs[i] EXCEPT !.loads = @ + 1] ELSE imgs[i]]

----------------------------------------------------------------------------
(* UV rectangles: create_text_decal *)

\* the four corners computed for character index i
UVRect(i, CELL_COUNT) ==
    LET col == i % CELL_COUNT[1]
        row == i \div CELL_COUNT[2]
        u_min == col
        u_max == col + 1
        v_min == CELL_COUNT[2] - (row + 1)
        v_max == CELL_COUNT[2] - row
    IN  << <<u_min, v_min>>, <<u_max, v_min>>, <<u_max, v_max>>, <<u_min, v_max>> >>

\* uv_dict after the first n iterations of the loop over enumerate(CHARACTERS)
RECURSIVE UVDictUpTo(_, _, _)
UVDictUpTo(CHARACTERS, CELL_COUNT, n) ==
    IF n = 0 THEN EmptyDict
    ELSE LET d == UVDictUpTo(CHARACTERS, CELL_COUNT, n - 1)
             char == CHARACTERS[n]
         IN  [c \in DOMAIN d \cup {char} |->
                 IF c = char THEN UVRect(n - 1, CELL_COUNT) ELSE d[c]]

\* mutant of UVDict: the loop stops one character short
UVDictShort(CHARACTERS, CELL_COUNT) ==
    UVDictUpTo(CHARACTERS, CELL_COUNT, IF Len(CHARACTERS) = 0 THEN 0 ELSE Len(CHARACTERS) - 1)

UVDict(CHARACTERS, CELL_COUNT) == UVDictUpTo(CHARACTERS, CELL_COUNT, Len(CHARACTERS))

\* materials.new(name=ATLAS_NAME) with a texture node, unless the name exists
NewMaterial(mats, ATLAS_NAME, image) ==
    IF ATLAS_NAME \notin {mats[i].name : i \in DOMAIN mats}
    THEN Append(mats, [name |-> ATLAS_NAME, image |-> image, blend_method |-> "CLIP"])
    ELSE mats

----------------------------------------------------------------------------
(* Line layout and planes: create_text_decal *)

\* sum([char_widths[char.upper()] for char in line if char.upper() in uv_dict])
RECURSIVE TotalWidth(_, _, _)
TotalWidth(line, uv, char_widths) ==
    IF line = <<>> THEN 0
    ELSE (IF Upper(Head(line)) \in DOMAIN uv THEN char_widths[Upper(Head(line))] ELSE 0)
         + TotalWidth(Tail(line), uv, char_widths)

\* mutant of LineStart: the line starts at the cursor instead of half its width before it
LineStartAtCursor(cursor_x, total_width) == cursor_x

\* line_cursor = cursor_location.x - (total_width / 2)
LineStart(cursor_x, total_width) == cursor_x - total_width \div 2

\* mutant of Advance: every character advances the cursor by one unit
AdvanceByOne(line_cursor, width) == line_cursor + Unit

\* line_cursor += char_widths[char.upper()]
Advance(line_cursor, width) == line_cursor + width

\* the plane's UVs: each corner moved to uv_center + uv_offset * (scale_factor, 1)
PlaneUV(rect, scale_factor) ==
    LET center2_u == rect[1][1] + rect[2][1]
        center2_v == rect[1][2] + rect[4][2]
    IN  [i \in 1..4 |->
            << center2_u * Unit + (2 * rect[i][1] - center2_u) * scale_factor,
               (center2_v + (2 * rect[i][2] - center2_v)) \div 2 >>]

\* primitive_plane_add(size=1, location=(line_cursor, y, z)); scale[0] = scale_factor;
\* transform_apply(scale); location.x += scale_factor * 0.5; materials.append(mat);
\* UVs; transform_apply(location)
NewPlane(char, uv, char_widths, material, line_cursor, loc_y) ==
    LET scale_factor == char_widths[char]
        half == ((Unit \div 2) * scale_factor) \div Unit
        loc_x == line_cursor + scale_factor \div 2
    IN  [name |-> "Plane",
         materials |-> {material},
         location |-> <<0, 0>>,
         quads |-> << [char |-> char,
                       x_min |-> loc_x - half,
                       x_max |-> loc_x + half,
                       y |-> loc_y,
                       uv |-> PlaneUV(uv[char], scale_factor)] >>]

\* for char in line: the planes of one line, left to right
RECURSIVE PlaceChars(_, _, _, _, _, _)
PlaceChars(line, uv, char_widths, material, line_cursor, loc_y) ==
    IF line = <<>> THEN <<>>
    ELSE LET char == Upper(Head(line))
         IN  IF char \in DOMAIN uv
             THEN <<NewPlane(char, uv, char_widths, material, line_cursor, loc_y)>>
                  \o PlaceChars(Tail(line), uv, char_widths, material,
                                Advance(line_cursor, char_widths[char]), loc_y)
             ELSE PlaceChars(Tail(line), uv, char_widths, material, line_cursor, loc_y)

\* for line in lines: ...; cursor_location.y -= 1
RECURSIVE SpawnLines(_, _, _, _, _, _)
SpawnLines(lines, uv, char_widths, material, cursor_x, loc_y) ==
    IF lines = <<>> THEN <<>>
    ELSE LET line == Head(lines)
             total_width == TotalWidth(line, uv, char_widths)
             line_cursor == LineStart(cursor_x, total_width)
         IN  PlaceChars(line, uv, char_widths, material, line_cursor, loc_y)
             \o SpawnLines(Tail(lines), uv, char_widths, material, cursor_x, loc_y - Unit)

\* mutant of JoinObjects: nothing is joined
JoinNothing(objs, created) == objs

\* bpy.ops.object.join(): the selected objects' geometry and material slots are
\* merged into the active object created[1]; the other selected objects are removed
JoinObjects(objs, created) ==
    LET active == created[1]
        merged == [objs[active] EXCEPT
                      !.quads = Flatten([k \in DOMAIN created |-> objs[created[k]].quads]),
                      !.materials = UNION {objs[created[k]].materials : k \in DOMAIN created}]
        absorbed == Range(created) \ {active}
        keep[i \in 0..Len(objs)] ==
            IF i = 0 THEN <<>>
            ELSE IF i \in absorbed THEN keep[i - 1]
            ELSE Append(keep[i - 1], IF i = active THEN merged ELSE objs[i])
    IN  keep[Len(objs)]

----------------------------------------------------------------------------
(* Initial states *)

TextAlphabet == {"A", "b", "n", "\\", "\n", "#"}
EditAlphabet == {"A", "#"}
DupAlphabet == {"A", "B"}

Texts == SeqsUpTo(TextAlphabet, MaxTextLen)
EditTexts == SeqsUpTo(EditAlphabet, MaxEditLen)
LayoutCharacterSets == {<<"A", "B", "N">>, <<"B", "A">>}
Prefixes == {SubSeq(DefaultCharacters, 1, n) : n \in 0..Len(DefaultCharacters)}
GridCharacterSets == Prefixes \cup SeqsUpTo(DupAlphabet, MaxDupLen)
\* cell_count has no minimum: 0 is admitted (negative counts are not explored)
Grids == (0..MaxCells) \X (0..MaxCells)

\* The state after register(): nothing generated yet; the properties hold values
\* the property definitions admit (strings are free, cell_count has no minimum).
InitWith(Saved, Writable, TextSet, CharacterSets, CellCounts, FontPaths, Cursors) ==
    /\ is_saved \in Saved
    /\ dir_writable \in Writable
    /\ text_content \in TextSet
    /\ characters \in CharacterSets
    /\ cell_count \in CellCounts
    /\ font_path \in FontPaths
    /\ cursor \in Cursors
    /\ atlas_png = [written |-> FALSE, draws |-> <<>>]
    /\ images = <<>>
    /\ materials = <<>>
    /\ objects = <<>>
    /\ pc = "idle"
    /\ reports = <<>>
    /\ returns = <<>>
    /\ img = None
    /\ text = <<>>
    /\ mat = None
    /\ uv_dict = EmptyDict
    /\ created_objects = <<>>
    /\ phases = <<>>

\* the operator and its panel: default character set, grid and font; the user
\* saves the project and edits the text
Init ==
    InitWith(BOOLEAN, BOOLEAN, EditTexts, {DefaultCharacters}, {DefaultCellCount},
             {"arial.ttf"}, {<<0, 0>>})

\* line layout: texts with lower case, escapes, line breaks and unsupported characters
InitLayout ==
    InitWith({TRUE}, {TRUE}, Texts, LayoutCharacterSets, {DefaultCellCount},
             {"", "arial.ttf"}, {<<0, 0>>, <<7, -3>>})

\* grid arithmetic: every cell count and character sets of every length
InitGrid ==
    InitWith({TRUE}, BOOLEAN, {<<"A", "b">>}, GridCharacterSets, Grids,
             {"arial.ttf"}, {<<0, 0>>})

----------------------------------------------------------------------------
(* The user's actions between invocations *)

\* the project file is saved
SaveProject ==
    /\ pc = "idle"
    /\ ~is_saved
    /\ is_saved' = TRUE
    /\ UNCHANGED <<dir_writable, text_content, characters, cell_count, font_path, cursor,
                   host, pc, reports, returns, locals, phases>>

\* the Decal Text field is edited
SetText ==
    /\ pc = "idle"
    /\ \E t \in EditTexts : t # text_content /\ text_content' = t
    /\ UNCHANGED <<config, host, pc, reports, returns, locals, phases>>

----------------------------------------------------------------------------
(* FONT_ATLAS_OT_Generate.execute and the functions it calls *)

ResetLocals ==
    /\ img' = None
    /\ text' = <<>>
    /\ mat' = None
    /\ uv_dict' = EmptyDict
    /\ created_objects' = <<>>

\* an exception leaves the operator: nothing is undone
Raise(exception) ==
    /\ returns' = Append(returns, exception)
    /\ pc' = "idle"
    /\ ResetLocals

\* mutant of TextMissing: the text is not checked
TextNeverMissing(t) == FALSE

\* not props.text_content
TextMissing(t) == t = <<>>

\* execute, up to the call of generate_font_atlas
Execute ==
    /\ pc = "idle"
    /\ Len(returns) < MaxRuns
    /\ phases' = <<>>
    /\ IF is_saved
       THEN IF TextMissing(text_content)
            THEN /\ reports' = <<"Please enter text content.">>
                 /\ returns' = Append(returns, "CANCELLED")
                 /\ pc' = "idle"
            ELSE /\ reports' = <<>>
                 /\ returns' = returns
                 /\ pc' = "generate_font_atlas"
       ELSE /\ reports' = <<"Please save the Blender file before proceeding.">>
            /\ returns' = Append(returns, "CANCELLED")
            /\ pc' = "idle"
    /\ UNCHANGED <<config, text_content, host, locals>>

ImageName(ATLAS_NAME) == ATLAS_NAME \o ".png"

\* generate_font_atlas: draw every character into its cell, save, load or reload
GenerateFontAtlas ==
    /\ pc = "generate_font_atlas"
    /\ IF cell_count[1] = 0 \/ cell_count[2] = 0
       THEN \* cell_size: division by zero
            /\ Raise("ZeroDivisionError")
            /\ UNCHANGED <<host, phases>>
       ELSE IF ~dir_writable
       THEN \* image.save raises PermissionError; the handler uses the undefined name self
            /\ Raise("NameError")
            /\ UNCHANGED <<host, phases>>
       ELSE /\ atlas_png' = [written |-> TRUE, draws |-> AtlasDraws(characters, cell_count)]
            /\ images' = LoadOrReload(images, ImageName(atlas_name))
            /\ img' = ImageName(atlas_name)
            /\ phases' = Append(phases, "rasterize")
            /\ pc' = "material"
            /\ UNCHANGED <<materials, objects, returns, text, mat, uv_dict, created_objects>>
    /\ UNCHANGED <<config, text_content, reports>>

\* create_text_decal: the '\n' replacement and the first material block
CreateMaterial ==
    /\ pc = "material"
    /\ text' = ReplaceEscapes(text_content)
    /\ materials' = NewMaterial(materials, atlas_name, img)
    /\ mat' = atlas_name
    /\ pc' = "uvs"
    /\ UNCHANGED <<config, text_content, atlas_png, images, objects, reports, returns,
                   img, uv_dict, created_objects, phases>>

\* create_text_decal: "Calculate UVs for each character"
ComputeUVs ==
    /\ pc = "uvs"
    /\ uv_dict' = UVDict(characters, cell_count)
    /\ phases' = Append(phases, "uvs")
    /\ pc' = "shared_material"
    /\ UNCHANGED <<config, text_content, host, reports, returns, img, text, mat,
                   created_objects>>

\* bpy.data.images.get(ATLAS_NAME, None)
ImageGet(imgs, name) == IF name \in {imgs[i].name : i \in DOMAIN imgs} THEN name ELSE None

\* create_text_decal: "Create a shared material"
SharedMaterial ==
    /\ pc = "shared_material"
    /\ materials' = NewMaterial(materials, atlas_name, ImageGet(images, atlas_name))
    /\ mat' = atlas_name
    /\ pc' = "spawn"
    /\ UNCHANGED <<config, text_content, atlas_png, images, objects, reports, returns,
                   img, text, uv_dict, created_objects, phases>>

\* create_text_decal: character widths, then one plane per supported character
SpawnQuads ==
    /\ pc = "spawn"
    /\ LET char_widths == CharWidths(font_path, characters)
           lines == SplitLines(text)
           planes == SpawnLines(lines, uv_dict, char_widths, mat, cursor[1], cursor[2])
       IN  /\ objects' = objects \o planes
           /\ created_objects' = [k \in 1..Len(planes) |-> Len(objects) + k]
    /\ phases' = Append(phases, "spawn")
    /\ pc' = "join"
    /\ UNCHANGED <<config, text_content, atlas_png, images, materials, reports, returns,
                   img, text, mat, uv_dict>>

\* create_text_decal: "Join all planes into a single object" and the rename.
\* created_objects keeps its (now stale) references.
JoinPlanes ==
    /\ pc = "join"
    /\ IF created_objects = <<>>
       THEN \* created_objects[0]
            /\ Raise("IndexError")
            /\ UNCHANGED <<host, phases>>
       ELSE /\ objects' = [JoinObjects(objects, created_objects) EXCEPT
                              ![created_objects[1]].name = "TextDecal"]
            /\ phases' = Append(phases, "join")
            /\ pc' = "finish"
            /\ UNCHANGED <<atlas_png, images, materials, returns, locals>>
    /\ UNCHANGED <<config, text_content, reports>>

\* create_text_decal: the joined object is moved to the 3D cursor as a whole
\* (origin, location, rotation, scale, view offset); execute returns FINISHED
FinishDecal ==
    /\ pc = "finish"
    /\ objects' = [objects EXCEPT ![created_objects[1]].location = cursor]
    /\ returns' = Append(returns, "FINISHED")
    /\ pc' = "idle"
    /\ ResetLocals
    /\ UNCHANGED <<config, text_content, atlas_png, images, materials, reports, phases>>

----------------------------------------------------------------------------
(* Specifications *)

Generate ==
    \/ Execute
    \/ GenerateFontAtlas
    \/ CreateMaterial
    \/ ComputeUVs
    \/ SharedMaterial
    \/ SpawnQuads
    \/ JoinPlanes
    \/ FinishDecal

Next == SaveProject \/ SetText \/ Generate

\* the operator with the user saving the project and editing the text
Spec == Init /\ [][Next]_vars

\* Generate on every text of the layout alphabet
SpecLayout == InitLayout /\ [][Generate]_vars

\* Generate on every cell grid and character set
SpecGrid == InitGrid /\ [][Generate]_vars

----------------------------------------------------------------------------
(* Vocabulary of the properties *)

cols == cell_count[1]
rows == cell_count[2]
Distinct(s) == Cardinality(Range(s)) = Len(s)
NumReturned(outcome) == Cardinality({i \in DOMAIN returns : returns[i] = outcome})
Returned(outcome) == pc = "idle" /\ returns # <<>> /\ Last(returns) = outcome

\* uv_dict holds the result of the UV computation step
UVComputed == pc \in {"shared_material", "spawn", "join", "finish"}

\* a UV rectangle by its corners: <<u_min, v_min>> is r[1], <<u_max, v_max>> is r[3]
RectInside(r) ==
    /\ 0 <= r[1][1] /\ r[1][1] < r[3][1] /\ r[3][1] <= cols
    /\ 0 <= r[1][2] /\ r[1][2] < r[3][2] /\ r[3][2] <= rows
RectsOverlap(r, q) ==
    /\ r[1][1] < q[3][1] /\ q[1][1] < r[3][1]
    /\ r[1][2] < q[3][2] /\ q[1][2] < r[3][2]
RectCoversCell(r, a, b) ==
    /\ r[1][1] <= a /\ a + 1 <= r[3][1]
    /\ r[1][2] <= b /\ b + 1 <= r[3][2]

\* the quads of one invocation: the planes just spawned, and each joined decal
SpawnedQuads ==
    IF pc = "join"
    THEN Flatten([k \in DOMAIN created_objects |-> objects[created_objects[k]].quads])
    ELSE <<>>
Decals == {i \in DOMAIN objects : objects[i].name = "TextDecal"}
QuadGroups == {objects[i].quads : i \in Decals} \cup {SpawnedQuads}
LineAt(G, y) == SelectSeq(G, LAMBDA q : q.y = y)
LinesOf(G) == {LineAt(G, y) : y \in {G[i].y : i \in DOMAIN G}}
QuadWidth(q) == q.x_max - q.x_min
QuadChars(G) == [i \in DOMAIN G |-> G[i].char]

\* the characters of t that have a glyph, upper-cased
Supported(t) ==
    LET s == SelectSeq(t, LAMBDA c : Upper(c) \in Range(characters))
    IN  [i \in DOMAIN s |-> Upper(s[i])]

----------------------------------------------------------------------------
(* C1: the UV rectangles of character indices 0 .. cols*rows-1 tile the unit
   square, for every grid with cols >= 1 and rows >= 1: each rectangle lies
   inside the square, no two overlap, and every cell of the square is covered. *)
C1_UVRectanglesTile ==
    (UVComputed /\ Distinct(characters) /\ Len(characters) = cols * rows) =>
        /\ \A c \in DOMAIN uv_dict : RectInside(uv_dict[c])
        /\ \A c, d \in DOMAIN uv_dict : c # d => ~RectsOverlap(uv_dict[c], uv_dict[d])
        /\ \A a \in 0..(cols - 1), b \in 0..(rows - 1) :
               \E c \in DOMAIN uv_dict : RectCoversCell(uv_dict[c], a, b)

(* C2: every line of the decal text is centred on the 3D cursor: the midpoint
   between the left edge of its first quad and the right edge of its last quad
   is the cursor's x, whatever characters were placed or skipped. *)
C2_LinesCentred ==
    \A G \in QuadGroups : \A line \in LinesOf(G) :
        line[1].x_min + Last(line).x_max = 2 * cursor[1]

C2_Witness ==
    /\ Returned("FINISHED")
    /\ text_content = <<"A", "#", "b">>
    /\ font_path # ""
    /\ cursor[1] # 0
    /\ \E G \in QuadGroups : Len(G) = 2 /\ QuadWidth(G[1]) # QuadWidth(G[2])

(* C3: on every line the quads are laid end to end: each quad is as wide as
   the measured width of its character, each quad starts where the previous
   one ends, and the line spans, from its first left edge to its last right
   edge, the total width computed for the line, which is the sum of the widths
   of the characters placed on it. *)
C3_LinesLaidEndToEnd ==
    LET char_widths == CharWidths(font_path, characters)
        lines == SplitLines(text)
    IN  /\ \A G \in QuadGroups : \A line \in LinesOf(G) :
            /\ \A i \in DOMAIN line : QuadWidth(line[i]) = char_widths[line[i].char]
            /\ \A i \in 1..(Len(line) - 1) : line[i + 1].x_min = line[i].x_max
            /\ Last(line).x_max - line[1].x_min
                   = SumSeq([i \in DOMAIN line |-> char_widths[line[i].char]])
        /\ pc = "join" =>
               \A k \in DOMAIN lines :
                   LET line == LineAt(SpawnedQuads, cursor[2] - (k - 1) * Unit)
                   IN  /\ QuadChars(line) = Supported(lines[k])
                       /\ TotalWidth(lines[k], uv_dict, char_widths)
                              = SumSeq([i \in DOMAIN line |-> QuadWidth(line[i])])

C3_Witness ==
    /\ pc = "join"
    /\ font_path # ""
    /\ Len(SplitLines(text)) = 2
    /\ \E line \in LinesOf(SpawnedQuads) :
           Len(line) = 2 /\ QuadWidth(line[1]) # QuadWidth(line[2])

(* C4: Generate has effects only on a saved project with a non-empty text.
   Unsaved (checked first) or saved with an empty text: execute reports one
   error, returns CANCELLED and changes nothing; otherwise it goes on to
   generate the atlas.  FINISHED is returned only for a saved project and a
   non-empty text. *)
C4_GenerateGuards ==
    [][ /\ (pc = "idle" /\ (returns' # returns \/ pc' # "idle")) =>
              IF ~is_saved \/ text_content = <<>>
              THEN /\ pc' = "idle"
                   /\ returns' = Append(returns, "CANCELLED")
                   /\ reports' = IF ~is_saved
                                 THEN <<"Please save the Blender file before proceeding.">>
                                 ELSE <<"Please enter text content.">>
                   /\ UNCHANGED host
              ELSE /\ pc' = "generate_font_atlas"
                   /\ returns' = returns
        /\ (returns' # returns /\ Last(returns') = "FINISHED") =>
              (is_saved /\ text_content # <<>>)
      ]_vars

C4_Witness ==
    /\ returns = <<"CANCELLED", "FINISHED">>
    /\ Len(objects) = 1

(* C5: on every configuration on which generation runs, the grid has at least
   as many cells as the character set has distinct characters, and every
   character is drawn in a row that lies inside the atlas. *)
C5_GridHoldsEveryCharacter ==
    atlas_png.written =>
        /\ cols * rows >= Cardinality(Range(characters))
        /\ \A k \in DOMAIN atlas_png.draws : atlas_png.draws[k].y < rows

(* C6, as claimed: after the UV computation step uv_dict has as many entries
   as the character set has characters, repeated characters included. *)
C6_OneRectanglePerCharacter ==
    UVComputed => Cardinality(DOMAIN uv_dict) = Len(characters)

(* C6, amended: after the UV computation step uv_dict has as many entries as
   the character set has distinct characters, and its keys are exactly those
   characters. *)
C6_OneRectanglePerDistinctCharacter ==
    UVComputed =>
        /\ DOMAIN uv_dict = Range(characters)
        /\ Cardinality(DOMAIN uv_dict) = Cardinality(Range(characters))

C6_Witness ==
    /\ UVComputed
    /\ characters = <<"A", "B", "A">>
    /\ Cardinality(DOMAIN uv_dict) = 2

\* what a finished invocation leaves in the scene, given the characters it
\* is to have placed
FinishedLeaves(expected) ==
    Returned("FINISHED") =>
        /\ phases = <<"rasterize", "uvs", "spawn", "join">>
        /\ Len(objects) = NumReturned("FINISHED")
        /\ \A i \in DOMAIN objects :
               /\ objects[i].name = "TextDecal"
               /\ objects[i].materials = {atlas_name}
               /\ QuadChars(objects[i].quads) = expected

(* C7, as claimed: a finished invocation went through rasterize, UVs, spawn
   and join, and leaves one TextDecal object with one material and exactly one
   quad per character of the text whose upper-cased form is in the character
   set; no plane object remains. *)
C7_OneQuadPerTextCharacter == FinishedLeaves(Supported(text_content))

(* C7, amended: the same, the quads being one per character of the lines of
   the text, the lines taken after every backslash-n sequence has been
   replaced by a line break. *)
C7_OneQuadPerLineCharacter ==
    FinishedLeaves(Supported(Flatten(SplitLines(ReplaceEscapes(text_content)))))

C7_Witness ==
    /\ Returned("FINISHED")
    /\ text_content = <<"A", "b", "#">>
    /\ Len(objects) = 2
    /\ QuadChars(objects[2].quads) = <<"A", "B">>

(* C8: the atlas and the UV mapping agree: for every character index below
   cols*rows, the UV rectangle of the character addresses the cell (column,
   row counted from the top) in which the atlas drew it. *)
C8_AtlasAndUVAgree ==
    UVComputed =>
        \A k \in DOMAIN characters :
            ( /\ k - 1 < cols * rows
              /\ \A j \in (k + 1)..Len(characters) : characters[j] # characters[k] ) =>
                LET r == uv_dict[characters[k]]
                    drawn == atlas_png.draws[k]
                IN  /\ r[4][1] = drawn.x /\ r[2][1] = drawn.x + 1
                    /\ rows - r[4][2] = drawn.y /\ rows - r[2][2] = drawn.y + 1

(* C9: on a saved project, Generate with a non-empty text returns FINISHED,
   with no unhandled failure, also when no character of the text is in the
   character set. *)
C9_GenerateFinishes ==
    (is_saved /\ text_content # <<>>) =>
        \A i \in DOMAIN returns : returns[i] = "FINISHED"

(* C10: once a Generate invocation has finished, and after any further ones
   with the same atlas name, there is exactly one image data block, named
   <atlas name>.png, and exactly one material, named <atlas name>, whose
   texture is that image; the image was loaded once and reloaded by every
   later invocation that generated the atlas. *)
C10_OneImageOneMaterial ==
    NumReturned("FINISHED") >= 1 =>
        /\ Len(images) = 1
        /\ images[1].name = ImageName(atlas_name)
        /\ images[1].loads = NumReturned("FINISHED") + NumReturned("IndexError")
                               + (IF pc \in {"idle", "generate_font_atlas"} THEN 0 ELSE 1)
        /\ Len(materials) = 1
        /\ materials[1].name = atlas_name
        /\ materials[1].image = images[1].name

C10_Witness ==
    /\ NumReturned("FINISHED") = 2
    /\ images[1].loads = 2

====
